---- MODULE Spec2Model ----
(***************************************************************************)
(* Model of BotManager (src/bot_manager.py): the websocket frame router    *)
(* _process_msg, the amulet ("Sky-High Ambition") sub-state handlers and   *)
(* the read queries the GUI calls on them, the thread of _run with its     *)
(* maintenance steps and teardown, and a second thread inside a query.     *)
(*                                                                         *)
(* Specifications:                                                         *)
(*   Spec         frames polled and routed one after another               *)
(*   SpecView     the same, fed with every desktopRemain around [0, 36]    *)
(*   SpecRace     field-by-field writes interleaved with a read query      *)
(*   SpecRun      _run from start to thread end; SpecRunFair adds weak     *)
(*                fairness of the thread                                   *)
(*   SpecBot      _run with _loop_pre_msg taken statement by statement,    *)
(*                interleaved with set_bot_update() of another thread      *)
(*                                                                         *)
(* Python values are modelled as follows.                                  *)
(*   dict        a record; a key the dict lacks is absent from its DOMAIN  *)
(*   list        a sequence                                                *)
(*   None        for the flow ids the string "None" (flow ids are strings) *)
(*               for the pool the record NoPool (some = FALSE)             *)
(*   str (text)  the GUI texts are records of their parts (header, rows,   *)
(*               tally), the empty string "" is the record with all parts  *)
(*               empty                                                     *)
(***************************************************************************)
EXTENDS Integers, Sequences, FiniteSets, TLC

VARIABLES
    lobby_flow_id,   \* self.lobby_flow_id
    game_flow_id,    \* self.game_flow_id
    amulet,          \* the _amulet_* fields of BotManager, as one record
    pc,              \* where the thread of _run stands
    msg,             \* the local msg of _run: the frame of this iteration
    prev,            \* history: the value of amulet before msg was processed
    calls,           \* the automation callbacks _process_msg fired for msg, in order
    run,             \* the thread state of _run: stop event, errors, flags, teardown
    reader           \* a thread of the GUI inside one of the read queries

vars == <<lobby_flow_id, game_flow_id, amulet, pc, msg, prev, calls, run, reader>>

-----------------------------------------------------------------------------
(* Bounds of the model *)

\* longest events[] list of an upgrade / operate message
MaxEvents == 2

-----------------------------------------------------------------------------
(* Program constants *)

POOL_LEN == 108      \* expected pool length
draw_start == 23     \* draw segment: pool[23:59]
draw_end == 59
rep_start == 59      \* replace queue: pool[59:108]
rep_end == 108
DEFAULT_REMAIN == 36 \* desktop_remain after a pool (re)set
HEADER_TOTAL == 36   \* the "/36" of the drawable header
ROW_LEN == 9         \* tiles per row of the drawable text
REPLACE_STAGE == 2   \* the stage in which the replace queue is shown

None == "None"

\* liqi.MsgType
MsgType == {"Req", "Res", "Notify"}
RES == "Res"

\* mitm.WsType
WsType == {"START", "END", "MESSAGE"}

oauth2Login == ".lq.Lobby.oauth2Login"
fetchAmuletActivityData == ".lq.Lobby.fetchAmuletActivityData"
amuletActivityUpgrade == ".lq.Lobby.amuletActivityUpgrade"
amuletActivityOperate == ".lq.Lobby.amuletActivityOperate"
amuletActivityGiveup == ".lq.Lobby.amuletActivityGiveup"
amuletActivityBuy == ".lq.Lobby.amuletActivityBuy"
fetchFriendList == ".lq.Lobby.fetchFriendList"

METHODS_TO_IGNORE ==
    { ".lq.Lobby.checkNetworkDelay",
      ".lq.Lobby.heartbeat",
      ".lq.Route.heartbeat",
      ".lq.Lobby.loginBeat",
      ".lq.Lobby.fetchAccountActivityData",
      ".lq.Lobby.fetchServerTime",
      oauth2Login }

\* 'amulet' in liqi_method.lower(): the methods of the model whose lower-cased
\* name contains "amulet"
ContainsAmulet(liqi_method) ==
    liqi_method \in { fetchAmuletActivityData, amuletActivityUpgrade,
                      amuletActivityOperate, amuletActivityGiveup,
                      amuletActivityBuy }

-----------------------------------------------------------------------------
(* Python helpers *)

Min(a, b) == IF a < b THEN a ELSE b
Max(a, b) == IF a > b THEN a ELSE b

\* seq[lo:hi] of Python, 0-based, hi exclusive, clipped to the sequence
Slice(seq, lo, hi) ==
    LET h == Min(hi, Len(seq))
    IN  IF lo >= h THEN <<>> ELSE [i \in 1..(h - lo) |-> seq[lo + i]]

\* a faulty variant: the first n elements
Head_n(seq, n) == Slice(seq, 0, n)

\* seq[-n:] of Python for n >= 1: the last n elements, all of them if n > len
Tail_n(seq, n) == Slice(seq, Max(0, Len(seq) - n), Len(seq))

\* set(seq)
ToSet(seq) == { seq[i] : i \in 1..Len(seq) }

\* the dict {}
EmptyDict == <<>>

\* d.get(k) or dflt
GetOr(d, k, dflt) == IF k \in DOMAIN d THEN d[k] ELSE dflt

\* isinstance(f, dict) and f.get("dirty"), for f = rd.get(k)
IsDirty(rd, k) == k \in DOMAIN rd /\ "dirty" \in DOMAIN rd[k] /\ rd[k].dirty

-----------------------------------------------------------------------------
(* The amulet state *)

NoPool == [some |-> FALSE, val |-> <<>>]
SomePool(p) == [some |-> TRUE, val |-> p]

\* self._amulet_info as __init__ builds it
InfoDefault == [stage |-> 0, hands |-> <<>>, desktop_remain |-> 0, ended |-> FALSE]

\* the _amulet_* fields after __init__
AmuletInit ==
    [ active |-> FALSE,
      info |-> InfoDefault,
      pool |-> NoPool,
      draw_ids |-> <<>>,
      used_ids |-> {},
      desktop_remain |-> 0,
      replace_ids |-> <<>>,
      replace_cursor |-> 0 ]

\* [int(x.get("id")) for x in slice if isinstance(x, dict) and "id" in x]
IdsOf(slice) ==
    LET F[i \in 0..Len(slice)] ==
            IF i = 0 THEN <<>>
            ELSE IF "id" \in DOMAIN slice[i] THEN Append(F[i - 1], slice[i].id)
                 ELSE F[i - 1]
    IN  F[Len(slice)]

\* a faulty variant: the draw segment and the replace queue cut one record late
set_pool_slices_shifted(a, pool) ==
    [ a EXCEPT !.pool = SomePool(pool),
               !.draw_ids = IdsOf(Slice(pool, draw_start + 1, draw_end + 1)),
               !.replace_ids = IdsOf(Slice(pool, rep_start + 1, rep_end + 1)),
               !.used_ids = {},
               !.desktop_remain = DEFAULT_REMAIN,
               !.replace_cursor = 0 ]

\* a faulty variant: the pool (re)set keeps the used ids, the remain count and the cursor
set_pool_without_reset(a, pool) ==
    [ a EXCEPT !.pool = SomePool(pool),
               !.draw_ids = IdsOf(Slice(pool, draw_start, draw_end)),
               !.replace_ids = IdsOf(Slice(pool, rep_start, rep_end)) ]

amulet_set_pool_from_array(a, pool) ==
    [ a EXCEPT !.pool = SomePool(pool),
               !.draw_ids = IdsOf(Slice(pool, draw_start, draw_end)),
               !.replace_ids = IdsOf(Slice(pool, rep_start, rep_end)),
               !.used_ids = {},
               !.desktop_remain = DEFAULT_REMAIN,
               !.replace_cursor = 0 ]

\* one event of _amulet_update_from_events
UpdateInfoFromEvent(info, ev) ==
    LET vc == GetOr(ev, "valueChanges", EmptyDict)
        rd == GetOr(vc, "round", EmptyDict)
        i1 == IF "stage" \in DOMAIN vc THEN [info EXCEPT !.stage = vc.stage] ELSE info
        i2 == IF IsDirty(rd, "hands")
              THEN [i1 EXCEPT !.hands = GetOr(rd.hands, "value", <<>>)] ELSE i1
        i3 == IF IsDirty(rd, "desktopRemain")
              THEN [i2 EXCEPT !.desktop_remain = GetOr(rd.desktopRemain, "value", 0)]
              ELSE i2
    IN  IF "ended" \in DOMAIN vc THEN [i3 EXCEPT !.ended = vc.ended] ELSE i3

amulet_update_from_events(a, events) ==
    LET F[i \in 0..Len(events)] ==
            IF i = 0 THEN a.info ELSE UpdateInfoFromEvent(F[i - 1], events[i])
    IN  [a EXCEPT !.info = F[Len(events)]]

\* the body of the for loop of _amulet_on_upgrade_events
UpgradeEvent(a, ev) ==
    LET vc == GetOr(ev, "valueChanges", EmptyDict)
        rd == GetOr(vc, "round", EmptyDict)
        a1 == IF IsDirty(rd, "pool") /\ "value" \in DOMAIN rd.pool
              THEN amulet_set_pool_from_array(a, rd.pool.value) ELSE a
        a2 == IF IsDirty(rd, "desktopRemain")
              THEN [a1 EXCEPT !.desktop_remain = GetOr(rd.desktopRemain, "value", 0)]
              ELSE a1
    IN  IF IsDirty(rd, "used")
        THEN [a2 EXCEPT !.replace_cursor = Len(GetOr(rd.used, "value", <<>>))]
        ELSE a2

amulet_on_upgrade_events(a, events) ==
    LET F[i \in 0..Len(events)] ==
            IF i = 0 THEN a ELSE UpgradeEvent(F[i - 1], events[i])
    IN  amulet_update_from_events(F[Len(events)], events)

\* a faulty variant: a dirty usedDesktop is merged into the used ids
OperateEvent_union(a, ev) ==
    LET vc == GetOr(ev, "valueChanges", EmptyDict)
        rd == GetOr(vc, "round", EmptyDict)
        a1 == IF IsDirty(rd, "usedDesktop")
              THEN [a EXCEPT !.used_ids =
                        @ \cup ToSet(GetOr(rd.usedDesktop, "value", <<>>))]
              ELSE a
        a2 == IF IsDirty(rd, "desktopRemain")
              THEN [a1 EXCEPT !.desktop_remain = GetOr(rd.desktopRemain, "value", 0)]
              ELSE a1
    IN  IF IsDirty(rd, "used")
        THEN [a2 EXCEPT !.replace_cursor = Len(GetOr(rd.used, "value", <<>>))]
        ELSE a2

\* a faulty variant: a dirty usedDesktop also takes the first id off the draw ids
OperateEvent_consumes_draw(a, ev) ==
    LET vc == GetOr(ev, "valueChanges", EmptyDict)
        rd == GetOr(vc, "round", EmptyDict)
        a1 == IF IsDirty(rd, "usedDesktop")
              THEN [a EXCEPT !.used_ids = ToSet(GetOr(rd.usedDesktop, "value", <<>>)),
                             !.draw_ids = IF @ = <<>> THEN @ ELSE Tail(@)]
              ELSE a
        a2 == IF IsDirty(rd, "desktopRemain")
              THEN [a1 EXCEPT !.desktop_remain = GetOr(rd.desktopRemain, "value", 0)]
              ELSE a1
    IN  IF IsDirty(rd, "used")
        THEN [a2 EXCEPT !.replace_cursor = Len(GetOr(rd.used, "value", <<>>))]
        ELSE a2

\* a faulty variant: a dirty used array advances the cursor by its length
OperateEvent_cursor_adds(a, ev) ==
    LET vc == GetOr(ev, "valueChanges", EmptyDict)
        rd == GetOr(vc, "round", EmptyDict)
        a1 == IF IsDirty(rd, "usedDesktop")
              THEN [a EXCEPT !.used_ids = ToSet(GetOr(rd.usedDesktop, "value", <<>>))]
              ELSE a
        a2 == IF IsDirty(rd, "desktopRemain")
              THEN [a1 EXCEPT !.desktop_remain = GetOr(rd.desktopRemain, "value", 0)]
              ELSE a1
    IN  IF IsDirty(rd, "used")
        THEN [a2 EXCEPT !.replace_cursor = @ + Len(GetOr(rd.used, "value", <<>>))]
        ELSE a2

\* the body of the for loop of _amulet_on_operate_events
OperateEvent(a, ev) ==
    LET vc == GetOr(ev, "valueChanges", EmptyDict)
        rd == GetOr(vc, "round", EmptyDict)
        a1 == IF IsDirty(rd, "usedDesktop")
              THEN [a EXCEPT !.used_ids = ToSet(GetOr(rd.usedDesktop, "value", <<>>))]
              ELSE a
        a2 == IF IsDirty(rd, "desktopRemain")
              THEN [a1 EXCEPT !.desktop_remain = GetOr(rd.desktopRemain, "value", 0)]
              ELSE a1
    IN  IF IsDirty(rd, "used")
        THEN [a2 EXCEPT !.replace_cursor = Len(GetOr(rd.used, "value", <<>>))]
        ELSE a2

amulet_on_operate_events(a, events) ==
    LET F[i \in 0..Len(events)] ==
            IF i = 0 THEN a ELSE OperateEvent(F[i - 1], events[i])
    IN  amulet_update_from_events(F[Len(events)], events)

amulet_on_fetch_data(a, liqi_data) ==
    LET d == GetOr(liqi_data, "data", EmptyDict)
    IN  IF "game" \notin DOMAIN d THEN a
        ELSE
        LET game == d.game
            round_obj == GetOr(game, "round", EmptyDict)
            pool == GetOr(round_obj, "pool", <<>>)
            a1 == IF pool # <<>> THEN amulet_set_pool_from_array(a, pool) ELSE a
            info1 == [a1.info EXCEPT !.stage = GetOr(game, "stage", 0),
                                     !.ended = GetOr(game, "ended", FALSE),
                                     !.hands = GetOr(round_obj, "hands", <<>>)]
            info2 == IF "desktopRemain" \in DOMAIN round_obj
                     THEN [info1 EXCEPT !.desktop_remain = round_obj.desktopRemain]
                     ELSE info1
        IN  [ a1 EXCEPT !.info = info2,
                        !.used_ids = ToSet(GetOr(round_obj, "usedDesktop", <<>>)),
                        !.desktop_remain = GetOr(round_obj, "desktopRemain", 0),
                        !.replace_cursor = Len(GetOr(round_obj, "used", <<>>)) ]

\* a faulty variant: giveup leaves the replace queue and the display info in place
giveup_keeps_queue(a) ==
    [ a EXCEPT !.active = FALSE,
               !.pool = NoPool,
               !.draw_ids = <<>>,
               !.used_ids = {},
               !.desktop_remain = 0,
               !.replace_cursor = 0 ]

\* the amuletActivityGiveup branch of _process_msg
amulet_giveup(a) ==
    [ a EXCEPT !.active = FALSE,
               !.pool = NoPool,
               !.draw_ids = <<>>,
               !.used_ids = {},
               !.desktop_remain = 0,
               !.replace_ids = <<>>,
               !.replace_cursor = 0,
               !.info = InfoDefault ]

-----------------------------------------------------------------------------
(* The read queries *)

\* tile symbols MJAI_TILE_2_UNICODE[cvt_ms2mjai(t)] is defined for, among those of
\* the model; the lookup raises for any other text
KnownTiles == {"1m", "5p", "9s", "1z"}

\* sorted(): the tile texts of the model in ascending str order
TileOrder == <<"1m", "1z", "5p", "9s", "?">>

\* _as_emoji: the emoji of a tile, the text itself when the lookup raises
AsEmoji(ms_tile) ==
    IF ms_tile \in KnownTiles THEN <<"emoji", ms_tile>> ELSE <<"text", ms_tile>>

CursorMark == <<"text", "|">>

\* the id2tile dict built from the pool, read with id2tile.get(pid, "?"):
\* records lacking "id" or "tile" are skipped, a later record overrides an earlier
Id2Tile(pool, pid) ==
    LET idx == { i \in 1..Len(pool) : /\ "id" \in DOMAIN pool[i]
                                      /\ "tile" \in DOMAIN pool[i]
                                      /\ pool[i].id = pid }
    IN  IF idx = {} THEN "?"
        ELSE pool[CHOOSE i \in idx : \A j \in idx : j <= i].tile

MapTiles(pool, ids) == [k \in 1..Len(ids) |-> Id2Tile(pool, ids[k])]

MapEmoji(tiles) == [k \in 1..Len(tiles) |-> AsEmoji(tiles[k])]

\* the while loop of _chunk_by9_tail_first, from offset i
RECURSIVE ChunkFrom(_, _)
ChunkFrom(seq, i) ==
    IF i < Len(seq) THEN <<Slice(seq, i, i + ROW_LEN)>> \o ChunkFrom(seq, i + ROW_LEN)
    ELSE <<>>

\* a faulty variant: rows of 9 from the front, the short row last
chunk_by9_head_first(seq) == ChunkFrom(seq, 0)

chunk_by9_tail_first(seq) ==
    LET r == Len(seq) % ROW_LEN
    IN  IF r # 0 THEN <<Slice(seq, 0, r)>> \o ChunkFrom(seq, r)
        ELSE ChunkFrom(seq, 0)

\* the stat line: Counter(remain_tiles) sorted by tile text, as <<emoji, count>>
Tally(tiles) ==
    LET cnt(t) == Cardinality({ k \in 1..Len(tiles) : tiles[k] = t })
        F[i \in 0..Len(TileOrder)] ==
            IF i = 0 THEN <<>>
            ELSE IF cnt(TileOrder[i]) > 0
                 THEN Append(F[i - 1], <<AsEmoji(TileOrder[i]), cnt(TileOrder[i])>>)
                 ELSE F[i - 1]
    IN  F[Len(TileOrder)]

\* the str "" of a text query
EmptyText == [header |-> <<>>, rows |-> <<>>, stat |-> <<>>]

\* remain as get_amulet_drawable_text clamps it
DrawableRemain(a) == Max(0, Min(a.desktop_remain, Len(a.draw_ids)))

get_amulet_drawable_text(a) ==
    IF ~(a.active /\ a.pool.some /\ a.pool.val # <<>> /\ a.draw_ids # <<>>)
    THEN EmptyText
    ELSE
    LET remain == DrawableRemain(a)
    IN  IF remain = 0
        THEN [header |-> <<0, HEADER_TOTAL>>, rows |-> <<>>, stat |-> <<>>]
        ELSE
        LET remain_ids == Tail_n(a.draw_ids, remain)
            remain_tiles == MapTiles(a.pool.val, remain_ids)
            rows == chunk_by9_tail_first(remain_tiles)
        IN  [ header |-> <<remain, HEADER_TOTAL>>,
              rows |-> [k \in 1..Len(rows) |-> MapEmoji(rows[k])],
              stat |-> Tally(remain_tiles) ]

\* cur as get_amulet_replace_text clamps it against a queue of n tiles
ClampCursor(cursor, n) ==
    LET c0 == IF cursor < 0 THEN 0 ELSE cursor
    IN  IF c0 > n THEN n ELSE c0

\* seq.insert(cur, x)
Insert(seq, cur, x) == Slice(seq, 0, cur) \o <<x>> \o Slice(seq, cur, Len(seq))

EmptyReplaceText == [header |-> <<>>, seq |-> <<>>]

\* a faulty variant: the queue is rendered in every stage
replace_text_any_stage(a) ==
    IF ~(a.active /\ a.pool.some /\ a.pool.val # <<>> /\ a.replace_ids # <<>>)
    THEN EmptyReplaceText
    ELSE
    LET emojis == MapEmoji(MapTiles(a.pool.val, a.replace_ids))
        cur == ClampCursor(a.replace_cursor, Len(emojis))
    IN  [ header |-> <<cur, Len(emojis)>>,
          seq |-> Insert(emojis, cur, CursorMark) ]

get_amulet_replace_text(a) ==
    IF ~(a.active /\ a.pool.some /\ a.pool.val # <<>> /\ a.replace_ids # <<>>)
    THEN EmptyReplaceText
    ELSE IF a.info.stage # REPLACE_STAGE THEN EmptyReplaceText
    ELSE
    LET emojis == MapEmoji(MapTiles(a.pool.val, a.replace_ids))
        cur == ClampCursor(a.replace_cursor, Len(emojis))
    IN  [ header |-> <<cur, Len(emojis)>>,
          seq |-> Insert(emojis, cur, CursorMark) ]

get_amulet_replace_queue(a) ==
    IF ~(a.active /\ a.pool.some /\ a.pool.val # <<>> /\ a.replace_ids # <<>>)
    THEN <<>>
    ELSE MapTiles(a.pool.val, a.replace_ids)

get_amulet_replace_cursor(a) == a.replace_cursor

is_in_amulet(a) == a.active

NoInfo == [some |-> FALSE]

get_amulet_info(a) == IF a.active THEN [some |-> TRUE, val |-> a.info] ELSE NoInfo

-----------------------------------------------------------------------------
(* Inputs: the frames the mitm server hands to _process_msg *)

FlowIds == {"f1", "f2"}

Tiles == <<"1m", "5p", "9s", "1z">>

\* a well-formed pool: 108 records with the ids 1..108
PoolA == [i \in 1..POOL_LEN |-> [id |-> i, tile |-> Tiles[(i % 4) + 1]]]

\* a well-formed pool with other ids and tiles; two records of the draw segment
\* carry the same id and different tiles
PoolB ==
    [i \in 1..POOL_LEN |->
        [id |-> IF i = 31 THEN 270 ELSE 300 - i, tile |-> Tiles[((i \div 2) % 4) + 1]]]

\* a pool of the wrong length, with a record that lacks "id" and one that lacks
\* "tile"
PoolShort ==
    [i \in 1..61 |->
        IF i = 25 THEN [tile |-> "1m"]
        ELSE IF i = 26 THEN [id |-> 526]
        ELSE [id |-> 500 + i, tile |-> Tiles[(i % 4) + 1]]]

\* a list of n ids
IdList(n) == [i \in 1..n |-> 1000 + i]

Dirty(v) == [dirty |-> TRUE, value |-> v]

Ev(type, vc) == [type |-> type, valueChanges |-> vc]

\* the event records upgrade and operate messages are built from
Events ==
    { Ev(1, [round |-> [pool |-> Dirty(PoolA)]]),
      Ev(2, [round |-> [pool |-> Dirty(PoolShort), desktopRemain |-> Dirty(10),
                        used |-> Dirty(IdList(2))]]),
      Ev(3, [round |-> [usedDesktop |-> Dirty(<<4>>)]]),
      Ev(4, [stage |-> 2, round |-> [hands |-> Dirty(<<7, 8>>)]]),
      Ev(5, [stage |-> 1, ended |-> TRUE,
             round |-> [desktopRemain |-> [dirty |-> FALSE, value |-> 5],
                        usedDesktop |-> [value |-> <<9>>],
                        pool |-> [dirty |-> FALSE, value |-> PoolB]]]) }

\* the events[] lists of at most n events
RECURSIVE EventLists(_)
EventLists(n) ==
    IF n = 0 THEN {<<>>}
    ELSE LET shorter == EventLists(n - 1)
         IN  shorter \cup
             { Append(l, e) : l \in { x \in shorter : Len(x) = n - 1 }, e \in Events }

\* an event whose dirty used array holds 1000 ids
LongUsedEvent == Ev(6, [round |-> [used |-> Dirty(IdList(1000))]])

\* an event without valueChanges
BareEvent == [type |-> 7]

NoData == [error |-> 0]

\* data of fetchAmuletActivityData responses
FetchData ==
    { NoData,
      [data |-> [game |-> [stage |-> 1, round |-> [pool |-> PoolA]]]],
      [data |-> [game |-> [stage |-> 2, ended |-> FALSE,
                           round |-> [pool |-> PoolB, hands |-> <<7, 8>>,
                                      desktopRemain |-> 10,
                                      usedDesktop |-> <<1, 2, 3>>,
                                      used |-> IdList(2)]]]],
      [data |-> [game |-> [stage |-> 2, round |-> [hands |-> <<7, 8>>]]]],
      [data |-> [game |-> [ended |-> TRUE]]] }

\* the data a message of a method can carry
DataOf(method) ==
    IF method = fetchAmuletActivityData THEN FetchData
    ELSE IF method \in {amuletActivityUpgrade, amuletActivityOperate}
    THEN { [events |-> l] :
               l \in EventLists(MaxEvents) \cup {<<LongUsedEvent>>, <<BareEvent>>} }
         \cup {NoData}
    ELSE {NoData}

Methods ==
    METHODS_TO_IGNORE \cup
    { fetchAmuletActivityData, amuletActivityUpgrade, amuletActivityOperate,
      amuletActivityGiveup, amuletActivityBuy, fetchFriendList }

\* liqi_parser.parse(msg.content) raises
ParseFailure == [ok |-> FALSE]

\* liqi_parser.parse(msg.content) returns liqimsg
LiqiMsg(type, method, data) ==
    [ok |-> TRUE, id |-> 1, type |-> type, method |-> method, data |-> data]

\* what the parser makes of the content of a MESSAGE frame: a failure, or a
\* message of any type and method without payload
PlainContents ==
    {ParseFailure} \cup { LiqiMsg(t, m, NoData) : t \in MsgType, m \in Methods }

\* responses that carry a payload
DataContents == UNION { { LiqiMsg(RES, m, d) : d \in DataOf(m) } : m \in Methods }

NoContent == [ok |-> FALSE]

WSMessage(type, flow_id, content) ==
    [type |-> type, flow_id |-> flow_id, content |-> content]

-----------------------------------------------------------------------------
(* _process_msg *)

\* the amulet branch of _process_msg, for a RES message
AmuletDispatch(a, liqi_method, liqi_data) ==
    IF liqi_method = fetchAmuletActivityData
    THEN amulet_on_fetch_data([a EXCEPT !.active = TRUE], liqi_data)
    ELSE IF liqi_method = amuletActivityUpgrade
    THEN amulet_on_upgrade_events([a EXCEPT !.active = TRUE],
                                  GetOr(liqi_data, "events", <<>>))
    ELSE IF liqi_method = amuletActivityOperate
    THEN amulet_on_operate_events([a EXCEPT !.active = TRUE],
                                  GetOr(liqi_data, "events", <<>>))
    ELSE IF liqi_method = amuletActivityGiveup
    THEN amulet_giveup(a)
    ELSE a

\* a faulty variant: the ignore-list is not consulted
process_liqi_no_ignore(m) ==
    LET liqimsg == m.content
    IN  IF ~liqimsg.ok
        THEN /\ calls' = <<>>
             /\ UNCHANGED <<lobby_flow_id, game_flow_id, amulet>>
        ELSE IF liqimsg.type = RES /\ liqimsg.method = oauth2Login
        THEN /\ lobby_flow_id' = IF lobby_flow_id = None THEN m.flow_id
                                 ELSE lobby_flow_id
             /\ calls' = IF lobby_flow_id = None THEN <<"on_lobby_login">> ELSE <<>>
             /\ UNCHANGED <<game_flow_id, amulet>>
        ELSE IF ContainsAmulet(liqimsg.method)
        THEN /\ amulet' = IF liqimsg.type # RES THEN amulet
                          ELSE AmuletDispatch(amulet, liqimsg.method, liqimsg.data)
             /\ calls' = <<>>
             /\ UNCHANGED <<lobby_flow_id, game_flow_id>>
        ELSE /\ calls' = <<>>
             /\ UNCHANGED <<lobby_flow_id, game_flow_id, amulet>>

\* a faulty variant: amulet messages are dispatched whatever their type
process_liqi_any_type(m) ==
    LET liqimsg == m.content
    IN  IF ~liqimsg.ok
        THEN /\ calls' = <<>>
             /\ UNCHANGED <<lobby_flow_id, game_flow_id, amulet>>
        ELSE IF liqimsg.method \in METHODS_TO_IGNORE
        THEN /\ calls' = <<>>
             /\ UNCHANGED <<lobby_flow_id, game_flow_id, amulet>>
        ELSE IF liqimsg.type = RES /\ liqimsg.method = oauth2Login
        THEN /\ lobby_flow_id' = IF lobby_flow_id = None THEN m.flow_id
                                 ELSE lobby_flow_id
             /\ calls' = IF lobby_flow_id = None THEN <<"on_lobby_login">> ELSE <<>>
             /\ UNCHANGED <<game_flow_id, amulet>>
        ELSE IF ContainsAmulet(liqimsg.method)
        THEN /\ amulet' = AmuletDispatch(amulet, liqimsg.method, liqimsg.data)
             /\ calls' = <<>>
             /\ UNCHANGED <<lobby_flow_id, game_flow_id>>
        ELSE /\ calls' = <<>>
             /\ UNCHANGED <<lobby_flow_id, game_flow_id, amulet>>

\* a faulty variant: a frame that fails to decode ends the amulet game
process_liqi_failure_resets(m) ==
    LET liqimsg == m.content
    IN  IF ~liqimsg.ok
        THEN /\ calls' = <<>>
             /\ amulet' = amulet_giveup(amulet)
             /\ UNCHANGED <<lobby_flow_id, game_flow_id>>
        ELSE IF liqimsg.method \in METHODS_TO_IGNORE
        THEN /\ calls' = <<>>
             /\ UNCHANGED <<lobby_flow_id, game_flow_id, amulet>>
        ELSE IF liqimsg.type = RES /\ liqimsg.method = oauth2Login
        THEN /\ lobby_flow_id' = IF lobby_flow_id = None THEN m.flow_id
                                 ELSE lobby_flow_id
             /\ calls' = IF lobby_flow_id = None THEN <<"on_lobby_login">> ELSE <<>>
             /\ UNCHANGED <<game_flow_id, amulet>>
        ELSE IF ContainsAmulet(liqimsg.method)
        THEN /\ amulet' = IF liqimsg.type # RES THEN amulet
                          ELSE AmuletDispatch(amulet, liqimsg.method, liqimsg.data)
             /\ calls' = <<>>
             /\ UNCHANGED <<lobby_flow_id, game_flow_id>>
        ELSE /\ calls' = <<>>
             /\ UNCHANGED <<lobby_flow_id, game_flow_id, amulet>>

\* the MESSAGE branch of _process_msg
process_liqi(m) ==
    LET liqimsg == m.content
    IN  IF ~liqimsg.ok
        THEN /\ calls' = <<>>
             /\ UNCHANGED <<lobby_flow_id, game_flow_id, amulet>>
        ELSE IF liqimsg.method \in METHODS_TO_IGNORE
        THEN /\ calls' = <<>>
             /\ UNCHANGED <<lobby_flow_id, game_flow_id, amulet>>
        ELSE IF liqimsg.type = RES /\ liqimsg.method = oauth2Login
        THEN /\ lobby_flow_id' = IF lobby_flow_id = None THEN m.flow_id
                                 ELSE lobby_flow_id
             /\ calls' = IF lobby_flow_id = None THEN <<"on_lobby_login">> ELSE <<>>
             /\ UNCHANGED <<game_flow_id, amulet>>
        ELSE IF ContainsAmulet(liqimsg.method)
        THEN /\ amulet' = IF liqimsg.type # RES THEN amulet
                          ELSE AmuletDispatch(amulet, liqimsg.method, liqimsg.data)
             /\ calls' = <<>>
             /\ UNCHANGED <<lobby_flow_id, game_flow_id>>
        ELSE /\ calls' = <<>>
             /\ UNCHANGED <<lobby_flow_id, game_flow_id, amulet>>

\* _process_end_game, as far as it writes fields of BotManager
process_end_game(r) == [r EXCEPT !.game_state = None, !.game_exception = None]

process_msg(m) ==
    /\ prev' = amulet
    /\ IF m.type = "START"
       THEN /\ calls' = <<>>
            /\ UNCHANGED <<lobby_flow_id, game_flow_id, amulet, run>>
       ELSE IF m.type = "END"
       THEN /\ game_flow_id' = IF m.flow_id = game_flow_id THEN None
                               ELSE game_flow_id
            /\ run' = IF m.flow_id = game_flow_id THEN process_end_game(run) ELSE run
            /\ lobby_flow_id' = IF m.flow_id = lobby_flow_id THEN None
                                ELSE lobby_flow_id
            /\ calls' = (IF m.flow_id = game_flow_id THEN <<"on_end_game">> ELSE <<>>)
                        \o (IF m.flow_id = lobby_flow_id THEN <<"on_exit_lobby">>
                            ELSE <<>>)
            /\ UNCHANGED amulet
       ELSE process_liqi(m) /\ UNCHANGED run

-----------------------------------------------------------------------------
(* The main loop of _run: poll a frame, process it, post-maintenance *)

NoMsg == WSMessage("NONE", None, NoContent)

\* the frames mitm_server.get_message() can return; the payloads come on one
\* flow, no handler of a payload reads the flow id
Frames ==
    { WSMessage(t, f, NoContent) : t \in {"START", "END"}, f \in FlowIds } \cup
    { WSMessage("MESSAGE", f, c) : f \in FlowIds, c \in PlainContents } \cup
    { WSMessage("MESSAGE", "f1", c) : c \in DataContents }

\* the fields of BotManager that _run and its maintenance steps read and write,
\* after __init__; stopped is the set of subsystems the teardown has stopped,
\* mitm_running the last answer of mitm_server.is_running() to _loop_post_msg,
\* update_requested whether set_bot_update() was called and no construction of
\* the bot has started since, found_exception the game error _loop_post_msg found
\* when it was last entered, lobby_decided whether it then called
\* automation.decide_lobby_action()
RunInit ==
    [ stop_event |-> FALSE,
      main_thread_exception |-> None,
      game_exception |-> None,
      game_state |-> None,
      bot |-> None,
      mitm_running |-> TRUE,
      update_requested |-> FALSE,
      found_exception |-> None,
      lobby_decided |-> FALSE,
      bot_need_update |-> TRUE,
      mitm_proxinject_need_update |-> FALSE,
      stopped |-> {} ]

\* no query is in progress
ReaderIdle == [at |-> "idle", query |-> "none", result |-> "none"]

Init ==
    /\ lobby_flow_id = None
    /\ game_flow_id = None
    /\ amulet = AmuletInit
    /\ pc = "poll"
    /\ msg = NoMsg
    /\ prev = AmuletInit
    /\ calls = <<>>
    /\ run = RunInit
    /\ reader = ReaderIdle

\* msg = self.mitm_server.get_message()
Poll ==
    /\ pc = "poll"
    /\ \E m \in Frames : msg' = m
    /\ pc' = "process"
    /\ UNCHANGED <<lobby_flow_id, game_flow_id, amulet, prev, calls, run, reader>>

\* self._process_msg(msg)
Process ==
    /\ pc = "process"
    /\ process_msg(msg)
    /\ pc' = "post"
    /\ UNCHANGED <<msg, reader>>

\* the end of the iteration: msg goes out of scope
LoopPost ==
    /\ pc = "post"
    /\ pc' = "poll"
    /\ msg' = NoMsg
    /\ prev' = amulet
    /\ calls' = <<>>
    /\ UNCHANGED <<lobby_flow_id, game_flow_id, amulet, run, reader>>

Next == Poll \/ Process \/ LoopPost

Spec == Init /\ [][Next]_vars

-----------------------------------------------------------------------------
(* The same loop fed with the frames that walk DesktopRemain through every   *)
(* value around [0, 36]: the specification of the drawable-text claims       *)

\* the desktopRemain values a server message carries here are -1..MaxViewRemain
MaxViewRemain == 38

\* ids of PoolA's draw segment: the last one and one from the middle
ViewUsedIds == <<59, 40>>

\* upgrade messages (re)set the pool
ViewUpgradeLists ==
    { <<Ev(1, [round |-> [pool |-> Dirty(p)]])>> : p \in {PoolB, PoolShort} }

\* operate messages set desktopRemain and usedDesktop
ViewOperateLists ==
    { <<Ev(2, [round |-> [desktopRemain |-> Dirty(n)]])>> :
          n \in (-1)..MaxViewRemain } \cup
    { <<Ev(3, [round |-> [usedDesktop |-> Dirty(ViewUsedIds)]])>> }

ViewContents ==
    { LiqiMsg(RES, fetchAmuletActivityData,
              [data |-> [game |-> [stage |-> 1, round |-> [pool |-> PoolA]]]]),
      LiqiMsg(RES, amuletActivityGiveup, NoData) } \cup
    { LiqiMsg(RES, amuletActivityUpgrade, [events |-> l]) : l \in ViewUpgradeLists } \cup
    { LiqiMsg(RES, amuletActivityOperate, [events |-> l]) : l \in ViewOperateLists }

\* msg = self.mitm_server.get_message()
PollView ==
    /\ pc = "poll"
    /\ \E c \in ViewContents : msg' = WSMessage("MESSAGE", "f1", c)
    /\ pc' = "process"
    /\ UNCHANGED <<lobby_flow_id, game_flow_id, amulet, prev, calls, run, reader>>

NextView == PollView \/ Process \/ LoopPost

SpecView == Init /\ [][NextView]_vars

-----------------------------------------------------------------------------
(* The loop thread writing the amulet fields one assignment at a time while   *)
(* a thread of the GUI runs a read query: the specification of the claim on   *)
(* concurrent readers.  An attribute load or store is one step.               *)

\* the messages whose handling (re)sets or clears the pool; every field is
\* assigned at most once while one of them is handled
RaceContents ==
    { LiqiMsg(RES, amuletActivityUpgrade,
              [events |-> <<Ev(4, [stage |-> 2, round |-> [pool |-> Dirty(PoolA)]])>>]),
      LiqiMsg(RES, amuletActivityUpgrade,
              [events |-> <<Ev(1, [round |-> [pool |-> Dirty(PoolB)]])>>]),
      LiqiMsg(RES, amuletActivityGiveup, NoData) }

\* the order in which the handler of the method assigns the fields
WriteOrder(method) ==
    IF method = amuletActivityGiveup
    THEN << "active", "pool", "draw_ids", "used_ids", "desktop_remain",
            "replace_ids", "replace_cursor", "info" >>
    ELSE << "active", "pool", "draw_ids", "replace_ids", "used_ids",
            "desktop_remain", "replace_cursor", "info" >>

\* the fields after the handler of msg has run to its end
WriteTarget == AmuletDispatch(prev, msg.content.method, msg.content.data)

\* msg = self.mitm_server.get_message()
PollRace ==
    /\ pc = "poll"
    /\ \E c \in RaceContents : msg' = WSMessage("MESSAGE", "f1", c)
    /\ pc' = "process"
    /\ UNCHANGED <<lobby_flow_id, game_flow_id, amulet, prev, calls, run, reader>>

\* the next assignment of the handler that changes a field
WriteField ==
    /\ pc = "process"
    /\ amulet # WriteTarget
    /\ LET order == WriteOrder(msg.content.method)
           k == CHOOSE i \in 1..Len(order) :
                    /\ amulet[order[i]] # WriteTarget[order[i]]
                    /\ \A j \in 1..(i - 1) : amulet[order[j]] = WriteTarget[order[j]]
       IN  amulet' = [amulet EXCEPT ![order[k]] = WriteTarget[order[k]]]
    /\ UNCHANGED <<lobby_flow_id, game_flow_id, pc, msg, prev, calls, run, reader>>

\* _process_msg returns
WriteDone ==
    /\ pc = "process"
    /\ amulet = WriteTarget
    /\ pc' = "post"
    /\ calls' = <<>>
    /\ UNCHANGED <<lobby_flow_id, game_flow_id, amulet, msg, prev, run, reader>>

\* the three queries that iterate over the pool
Queries ==
    { "get_amulet_drawable_text", "get_amulet_replace_text",
      "get_amulet_replace_queue" }

\* the id list the guard of the query tests
GuardIds(q) ==
    IF q = "get_amulet_drawable_text" THEN amulet.draw_ids ELSE amulet.replace_ids

ReaderAt(at, res) == [reader EXCEPT !.at = at, !.result = res]

\* a query is called; the guard loads self._amulet_active
QueryCall ==
    /\ reader.at = "idle"
    /\ \E q \in Queries :
           reader' = IF amulet.active
                     THEN [at |-> "guard_pool", query |-> q, result |-> "none"]
                     ELSE [at |-> "done", query |-> q, result |-> "empty"]
    /\ UNCHANGED <<lobby_flow_id, game_flow_id, amulet, pc, msg, prev, calls, run>>

\* the guard loads self._amulet_pool
QueryGuardPool ==
    /\ reader.at = "guard_pool"
    /\ reader' = IF amulet.pool.some /\ amulet.pool.val # <<>>
                 THEN ReaderAt("guard_ids", "none")
                 ELSE ReaderAt("done", "empty")
    /\ UNCHANGED <<lobby_flow_id, game_flow_id, amulet, pc, msg, prev, calls, run>>

\* the guard loads the id list
QueryGuardIds ==
    /\ reader.at = "guard_ids"
    /\ reader' = IF GuardIds(reader.query) = <<>> THEN ReaderAt("done", "empty")
                 ELSE IF reader.query = "get_amulet_replace_text"
                 THEN ReaderAt("stage", "none")
                 ELSE ReaderAt("iterate", "none")
    /\ UNCHANGED <<lobby_flow_id, game_flow_id, amulet, pc, msg, prev, calls, run>>

\* get_amulet_replace_text reads the stage
QueryStage ==
    /\ reader.at = "stage"
    /\ reader' = IF amulet.info.stage # REPLACE_STAGE THEN ReaderAt("done", "empty")
                 ELSE ReaderAt("iterate", "none")
    /\ UNCHANGED <<lobby_flow_id, game_flow_id, amulet, pc, msg, prev, calls, run>>

\* for obj in self._amulet_pool: the pool is loaded again; iterating None
\* raises TypeError, which no handler of the query catches
QueryIterate ==
    /\ reader.at = "iterate"
    /\ reader' = IF amulet.pool.some THEN ReaderAt("rest", "none")
                 ELSE ReaderAt("done", "raised")
    /\ UNCHANGED <<lobby_flow_id, game_flow_id, amulet, pc, msg, prev, calls, run>>

\* the rest of the query: slices, lookups with defaults and joins, none of which
\* raises on a list or an int the loop thread has replaced meanwhile
QueryRest ==
    /\ reader.at = "rest"
    /\ reader' = ReaderAt("done", "value")
    /\ UNCHANGED <<lobby_flow_id, game_flow_id, amulet, pc, msg, prev, calls, run>>

\* the caller goes on with what the query gave it
QueryReturn ==
    /\ reader.at = "done"
    /\ reader' = [reader EXCEPT !.at = "idle"]
    /\ UNCHANGED <<lobby_flow_id, game_flow_id, amulet, pc, msg, prev, calls, run>>

NextRace ==
    \/ PollRace \/ WriteField \/ WriteDone \/ LoopPost
    \/ QueryCall \/ QueryGuardPool \/ QueryGuardIds \/ QueryStage
    \/ QueryIterate \/ QueryRest \/ QueryReturn

SpecRace == Init /\ [][NextRace]_vars

-----------------------------------------------------------------------------
(* The thread of _run as a whole: start of the interception subsystem, the     *)
(* loop with its maintenance steps, the teardown, and the other threads that   *)
(* set the stop event and the bot flag.  What a collaborator returns (the      *)
(* certificate check, is_running, an empty queue) and whether it raises is     *)
(* chosen by the environment.  An exception is named by the place that raised  *)
(* it.                                                                         *)

\* m is a MESSAGE frame the parser decoded
IsLiqiFrame(m) == m.type = "MESSAGE" /\ m.content.ok

\* the frames of this specification: one of each kind _process_msg tells apart,
\* and a decoded message that lacks the 'data' key
RunFrames ==
    { WSMessage("START", "f1", NoContent),
      WSMessage("END", "f1", NoContent),
      WSMessage("MESSAGE", "f1", ParseFailure),
      WSMessage("MESSAGE", "f1", LiqiMsg(RES, oauth2Login, NoData)),
      WSMessage("MESSAGE", "f1", LiqiMsg(RES, fetchFriendList, NoData)),
      WSMessage("MESSAGE", "f1", LiqiMsg(RES, amuletActivityOperate,
                [events |-> <<Ev(3, [round |-> [usedDesktop |-> Dirty(<<4>>)]])>>])),
      WSMessage("MESSAGE", "f1", LiqiMsg(RES, amuletActivityGiveup, NoData)),
      WSMessage("MESSAGE", "f1",
                [ok |-> TRUE, id |-> 1, type |-> RES, method |-> fetchFriendList]) }

\* the thread has been started and is about to enter _run
InitRun ==
    /\ lobby_flow_id = None
    /\ game_flow_id = None
    /\ amulet = AmuletInit
    /\ pc = "start"
    /\ msg = NoMsg
    /\ prev = AmuletInit
    /\ calls = <<>>
    /\ run = RunInit
    /\ reader = ReaderIdle

\* _create_mitm_and_proxinject: the fatal error is recorded, and the call returns,
\* when the certificate is not installed
create_mitm_and_proxinject(r, cert_installed) ==
    IF cert_installed THEN r
    ELSE [r EXCEPT !.main_thread_exception = "MitmCertNotInstalled"]

\* the except clause of _run
run_except(r, e) == [r EXCEPT !.main_thread_exception = e]

\* a faulty variant: the loop condition does not read the stop event
loop_ignores_stop(r) == TRUE

\* while self._stop_event.is_set() is False
loop_continues(r) == ~r.stop_event

\* _run up to the loop: the interception subsystem and the browser are started
RunStart ==
    /\ pc = "start"
    /\ \/ \E cert_installed \in BOOLEAN :
              /\ run' = create_mitm_and_proxinject(run, cert_installed)
              /\ pc' = "head"
       \/ /\ run' = run_except(run, "StartError")
          /\ pc' = "exited"
    /\ UNCHANGED <<lobby_flow_id, game_flow_id, amulet, msg, prev, calls, reader>>

\* the loop condition
LoopHead ==
    /\ pc = "head"
    /\ pc' = IF loop_continues(run) THEN "pre" ELSE "teardown"
    /\ UNCHANGED <<lobby_flow_id, game_flow_id, amulet, msg, prev, calls, run, reader>>

\* a faulty variant: a failed construction leaves the previous bot in place
create_bot_keeps_old(r, created) ==
    [r EXCEPT !.bot = IF created THEN "bot" ELSE r.bot,
              !.game_exception = IF created THEN None ELSE "BotError"]

\* _create_bot: the bot is replaced and the game error cleared, or the bot is
\* dropped and the game error set when get_bot raises
create_bot(r, created) ==
    [r EXCEPT !.bot = IF created THEN "bot" ELSE None,
              !.game_exception = IF created THEN None ELSE "BotError"]

\* _create_bot is called: the requests made so far are served by this
\* construction
bot_construction_starts(r) == [r EXCEPT !.update_requested = FALSE]

\* _loop_pre_msg
loop_pre_msg(r, created, browser_running, cert_installed) ==
    LET r1 == IF r.bot_need_update /\ r.game_state = None
              THEN [create_bot(bot_construction_starts(r), created)
                        EXCEPT !.bot_need_update = FALSE]
              ELSE r
    IN  IF r1.mitm_proxinject_need_update /\ ~browser_running
        THEN [create_mitm_and_proxinject(r1, cert_installed)
                  EXCEPT !.mitm_proxinject_need_update = FALSE]
        ELSE r1

\* self.fps_counter.frame() and self._loop_pre_msg(); an exception of the frame
\* counter escapes the loop
LoopPre ==
    /\ pc = "pre"
    /\ \/ \E created, browser_running, cert_installed \in BOOLEAN :
              /\ run' = loop_pre_msg(run, created, browser_running, cert_installed)
              /\ pc' = "poll"
       \/ /\ run' = run_except(run, "LoopBodyError")
          /\ pc' = "exited"
    /\ UNCHANGED <<lobby_flow_id, game_flow_id, amulet, msg, prev, calls, reader>>

\* msg = self.mitm_server.get_message(): a frame, or queue.Empty and the sleep
\* of 2 ms
RunPoll ==
    /\ pc = "poll"
    /\ \/ \E m \in RunFrames : msg' = m /\ pc' = "process"
       \/ msg' = NoMsg /\ pc' = "post"
    /\ UNCHANGED <<lobby_flow_id, game_flow_id, amulet, prev, calls, run, reader>>

\* a faulty variant: the exception of _process_msg escapes the iteration
RunProcess_escapes ==
    /\ pc = "process"
    /\ IF IsLiqiFrame(msg) /\ "data" \notin DOMAIN msg.content
       THEN /\ run' = [run EXCEPT !.main_thread_exception = "KeyError"]
            /\ pc' = "exited"
            /\ prev' = amulet
            /\ calls' = <<>>
            /\ UNCHANGED <<lobby_flow_id, game_flow_id, amulet>>
       ELSE process_msg(msg) /\ pc' = "post"
    /\ UNCHANGED <<msg, reader>>

\* self._process_msg(msg) inside the try of the loop: liqimsg['data'] raises
\* KeyError for a decoded message without that key, and the exception becomes the
\* game error
RunProcess ==
    /\ pc = "process"
    /\ IF IsLiqiFrame(msg) /\ "data" \notin DOMAIN msg.content
       THEN /\ run' = [run EXCEPT !.game_exception = "KeyError"]
            /\ prev' = amulet
            /\ calls' = <<>>
            /\ UNCHANGED <<lobby_flow_id, game_flow_id, amulet>>
       ELSE process_msg(msg)
    /\ pc' = "post"
    /\ UNCHANGED <<msg, reader>>

\* a faulty variant: the interception-down error is never cleared
loop_post_msg_never_clears(r, mitm_running) ==
    LET e == IF ~mitm_running THEN "MITMException" ELSE r.game_exception
    IN  [r EXCEPT !.mitm_running = mitm_running,
                  !.found_exception = r.game_exception,
                  !.game_exception = e,
                  !.lobby_decided = (e = None)]

\* a faulty variant: an earlier game error is kept when the server is down
loop_post_msg_keeps_earlier(r, mitm_running) ==
    LET e == IF ~mitm_running
             THEN (IF r.game_exception = None THEN "MITMException"
                   ELSE r.game_exception)
             ELSE IF r.game_exception = "MITMException" THEN None
             ELSE r.game_exception
    IN  [r EXCEPT !.mitm_running = mitm_running,
                  !.found_exception = r.game_exception,
                  !.game_exception = e,
                  !.lobby_decided = (e = None)]

\* a faulty variant: a running server clears whatever game error there is
loop_post_msg_clears_any(r, mitm_running) ==
    LET e == IF ~mitm_running THEN "MITMException" ELSE None
    IN  [r EXCEPT !.mitm_running = mitm_running,
                  !.found_exception = r.game_exception,
                  !.game_exception = e,
                  !.lobby_decided = (e = None)]

\* _loop_post_msg, as far as it writes fields of BotManager: the check of the
\* interception server, and decide_lobby_action() unless a game error is set
loop_post_msg(r, mitm_running) ==
    LET e == IF ~mitm_running THEN "MITMException"
             ELSE IF r.game_exception = "MITMException" THEN None
             ELSE r.game_exception
    IN  [r EXCEPT !.mitm_running = mitm_running,
                  !.found_exception = r.game_exception,
                  !.game_exception = e,
                  !.lobby_decided = (e = None)]

\* self._loop_post_msg(); an exception of the browser or the automation calls
\* escapes the loop
RunPost ==
    /\ pc = "post"
    /\ \E mitm_running \in BOOLEAN :
           \/ /\ run' = loop_post_msg(run, mitm_running)
              /\ pc' = "head"
           \/ /\ run' = run_except(loop_post_msg(run, mitm_running), "LoopBodyError")
              /\ pc' = "exited"
    /\ msg' = NoMsg
    /\ prev' = amulet
    /\ calls' = <<>>
    /\ UNCHANGED <<lobby_flow_id, game_flow_id, amulet, reader>>

\* the clean-up after the loop: browser, interception server and, if it runs,
\* the injection helper are stopped; a stop that raises ends the clean-up
Teardown ==
    /\ pc = "teardown"
    /\ \/ \E injector_running \in BOOLEAN :
              run' = [run EXCEPT !.stopped =
                          {"browser", "mitm"} \cup
                          (IF injector_running THEN {"proxinject"} ELSE {})]
       \/ \E done \in {{}, {"browser"}, {"browser", "mitm"}} :
              run' = run_except([run EXCEPT !.stopped = done], "TeardownError")
    /\ pc' = "exited"
    /\ UNCHANGED <<lobby_flow_id, game_flow_id, amulet, msg, prev, calls, reader>>

\* stop(), called from another thread
Stop ==
    /\ ~run.stop_event
    /\ run' = [run EXCEPT !.stop_event = TRUE]
    /\ UNCHANGED <<lobby_flow_id, game_flow_id, amulet, pc, msg, prev, calls, reader>>

\* set_bot_update()
set_bot_update(r) == [r EXCEPT !.bot_need_update = TRUE, !.update_requested = TRUE]

\* set_bot_update(), called from another thread
SetBotUpdate ==
    /\ ~run.bot_need_update \/ ~run.update_requested
    /\ run' = set_bot_update(run)
    /\ UNCHANGED <<lobby_flow_id, game_flow_id, amulet, pc, msg, prev, calls, reader>>

\* a step of the thread of _run
ThreadStep ==
    RunStart \/ LoopHead \/ LoopPre \/ RunPoll \/ RunProcess \/ RunPost \/ Teardown

NextRun ==
    \/ RunStart \/ LoopHead \/ LoopPre \/ RunPoll \/ RunProcess \/ RunPost
    \/ Teardown \/ Stop \/ SetBotUpdate

SpecRun == InitRun /\ [][NextRun]_vars

\* the scheduler lets the thread of _run run, and every collaborator call returns
SpecRunFair == SpecRun /\ WF_vars(ThreadStep)

-----------------------------------------------------------------------------
(* Predicates on the frame of the iteration *)

\* _process_msg has returned: amulet is the state after msg, prev the one before
Handled == pc = "post"

\* msg is a MESSAGE frame the parser decoded
IsLiqi == msg.type = "MESSAGE" /\ msg.content.ok

\* msg is a decoded RES message of the method
IsRes(method) == IsLiqi /\ msg.content.type = RES /\ msg.content.method = method

\* the events[] of an upgrade / operate message
EventsOf(liqimsg) == GetOr(liqimsg.data, "events", <<>>)

\* the round dict of an event
RoundOf(ev) == GetOr(GetOr(ev, "valueChanges", EmptyDict), "round", EmptyDict)

\* the event carries a dirty pool array
HasDirtyPool(ev) == IsDirty(RoundOf(ev), "pool") /\ "value" \in DOMAIN RoundOf(ev).pool

\* every record of the array is a {id, tile} record
WellFormed(pool) ==
    \A i \in 1..Len(pool) : "id" \in DOMAIN pool[i] /\ "tile" \in DOMAIN pool[i]

-----------------------------------------------------------------------------
(* C1 *)

\* C1: whenever the pool holds an array of exactly 108 {id, tile} records,
\* DrawSegment is the 36 ids of the records at the (0-based) indices 23..58 in
\* pool order and ReplaceQueue the 49 ids of the records at 59..107, whatever
\* the tiles are.
C1_SegmentsAreFixedRanges ==
    (amulet.pool.some /\ Len(amulet.pool.val) = 108 /\ WellFormed(amulet.pool.val))
    => /\ amulet.draw_ids = [k \in 1..36 |-> amulet.pool.val[23 + k].id]
       /\ amulet.replace_ids = [k \in 1..49 |-> amulet.pool.val[59 + k].id]

\* an upgrade or fetch message has replaced a pool by another 108-record pool
C1_Witness ==
    /\ Handled
    /\ (IsRes(amuletActivityUpgrade) \/ IsRes(fetchAmuletActivityData))
    /\ prev.pool.some
    /\ amulet.pool.some
    /\ amulet.pool.val # prev.pool.val
    /\ Len(amulet.pool.val) = 108
    /\ Len(amulet.draw_ids) = 36
    /\ Len(amulet.replace_ids) = 49

-----------------------------------------------------------------------------
(* C2 *)

\* all dirty fields of the events are pool arrays, and there is one
OnlyPoolDirty(events) ==
    /\ \E i \in 1..Len(events) : HasDirtyPool(events[i])
    /\ \A i \in 1..Len(events) :
           \A k \in DOMAIN RoundOf(events[i]) :
               IsDirty(RoundOf(events[i]), k) => k = "pool"

InputPools == {PoolA, PoolB, PoolShort}

\* The first conjunct applies the routine to amulet, whose every value is held
\* at a poll.

\* C2: a pool (re)set resets DesktopRemain to 36, UsedIdSet to empty and
\* ReplaceCursor to 0 whatever they were: right after the pool-(re)set routine,
\* and at the end of an upgrade batch whose only dirty field is the pool array.
C2_PoolSetResets ==
    /\ pc = "poll"
       => \A p \in InputPools :
           LET a == amulet_set_pool_from_array(amulet, p)
           IN  a.used_ids = {} /\ a.desktop_remain = 36 /\ a.replace_cursor = 0
    /\ (Handled /\ IsRes(amuletActivityUpgrade) /\ OnlyPoolDirty(EventsOf(msg.content)))
       => /\ amulet.used_ids = {}
          /\ amulet.desktop_remain = 36
          /\ amulet.replace_cursor = 0

\* such an upgrade batch arrived when all three values were non-default
C2_Witness ==
    /\ Handled
    /\ IsRes(amuletActivityUpgrade)
    /\ OnlyPoolDirty(EventsOf(msg.content))
    /\ prev.used_ids = {1, 2, 3}
    /\ prev.desktop_remain = 10
    /\ prev.replace_cursor = 2
    /\ amulet.desktop_remain = 36

-----------------------------------------------------------------------------
(* C3 *)

\* the round of a fetch payload, if the payload has a game
FetchRound(liqi_data) ==
    IF "data" \in DOMAIN liqi_data /\ "game" \in DOMAIN liqi_data.data
    THEN GetOr(liqi_data.data.game, "round", EmptyDict)
    ELSE EmptyDict

\* msg is a fetch response that carries a pool array and no resume field
FetchPoolOnly ==
    /\ IsRes(fetchAmuletActivityData)
    /\ LET r == FetchRound(msg.content.data)
       IN  /\ "pool" \in DOMAIN r /\ r.pool # <<>>
           /\ DOMAIN r \cap {"usedDesktop", "used", "desktopRemain"} = {}

\* C3: after a fetch whose payload carries a non-empty pool array and none of
\* usedDesktop, used, desktopRemain: UsedIdSet is empty, DesktopRemain is 36 and
\* ReplaceCursor is 0.
C3_FetchPoolResets ==
    (Handled /\ FetchPoolOnly)
    => /\ amulet.used_ids = {}
       /\ amulet.desktop_remain = 36
       /\ amulet.replace_cursor = 0

-----------------------------------------------------------------------------
(* C4 *)

\* the indices of the events with a dirty usedDesktop
DirtyUsedDesktop(events) ==
    { i \in 1..Len(events) : IsDirty(RoundOf(events[i]), "usedDesktop") }

\* the value V of a dirty usedDesktop field
UsedDesktopValue(ev) == GetOr(RoundOf(ev).usedDesktop, "value", <<>>)

\* C4: an operate event whose usedDesktop is dirty with value V makes UsedIdSet
\* exactly the ids of V, for every prior set: an id is in the set after the
\* event iff it occurs in V; after a batch the last such event decides.
C4_UsedIdsOverwritten ==
    /\ \A ev \in Events :
           IsDirty(RoundOf(ev), "usedDesktop")
           => LET V == UsedDesktopValue(ev)
                  after == OperateEvent(amulet, ev).used_ids
              IN  /\ \A x \in after : \E i \in 1..Len(V) : V[i] = x
                  /\ \A i \in 1..Len(V) : V[i] \in after
    /\ (Handled /\ IsRes(amuletActivityOperate)
            /\ DirtyUsedDesktop(EventsOf(msg.content)) # {})
       => LET evs == EventsOf(msg.content)
              n == CHOOSE i \in DirtyUsedDesktop(evs) :
                       \A j \in DirtyUsedDesktop(evs) : j <= i
              V == UsedDesktopValue(evs[n])
          IN  /\ \A x \in amulet.used_ids : \E i \in 1..Len(V) : V[i] = x
              /\ \A i \in 1..Len(V) : V[i] \in amulet.used_ids

\* the set {1,2,3} was overwritten by a dirty usedDesktop [4]
C4_Witness ==
    /\ Handled
    /\ IsRes(amuletActivityOperate)
    /\ DirtyUsedDesktop(EventsOf(msg.content)) # {}
    /\ prev.used_ids = {1, 2, 3}
    /\ amulet.used_ids = {4}

-----------------------------------------------------------------------------
(* C5 *)

\* C5: after a giveup response, from any prior state: the pool is absent,
\* DrawSegment, ReplaceQueue and UsedIdSet are empty, DesktopRemain and
\* ReplaceCursor are 0, AmuletMeta has its defaults, is_in_amulet() is false,
\* get_amulet_info() is absent and the three queries return empty results.
C5_GiveupClears ==
    (Handled /\ IsRes(amuletActivityGiveup))
    => /\ ~amulet.pool.some
       /\ amulet.draw_ids = <<>>
       /\ amulet.replace_ids = <<>>
       /\ amulet.used_ids = {}
       /\ amulet.desktop_remain = 0
       /\ amulet.replace_cursor = 0
       /\ amulet.info.stage = 0
       /\ amulet.info.hands = <<>>
       /\ amulet.info.desktop_remain = 0
       /\ amulet.info.ended = FALSE
       /\ ~is_in_amulet(amulet)
       /\ ~get_amulet_info(amulet).some
       /\ get_amulet_drawable_text(amulet) = EmptyText
       /\ get_amulet_replace_text(amulet) = EmptyReplaceText
       /\ get_amulet_replace_queue(amulet) = <<>>

\* a giveup arrived in the replace stage of a game with pool, used ids and cursor
C5_Witness ==
    /\ Handled
    /\ IsRes(amuletActivityGiveup)
    /\ prev.active
    /\ prev.pool.some
    /\ Len(prev.replace_ids) = 49
    /\ prev.used_ids # {}
    /\ prev.replace_cursor > 0
    /\ prev.info.stage = 2
    /\ prev.info.hands # <<>>
    /\ get_amulet_replace_text(prev) # EmptyReplaceText

-----------------------------------------------------------------------------
(* C6 *)

\* C6: get_amulet_replace_text() returns the empty string in every state in
\* which AmuletMeta.stage is not 2.
C6_ReplaceTextOnlyInStage2 ==
    amulet.info.stage # 2 => get_amulet_replace_text(amulet) = EmptyReplaceText

\* active, with a 108-record pool and a full queue, in stage 1
C6_Witness ==
    /\ amulet.active
    /\ amulet.pool.some
    /\ Len(amulet.pool.val) = 108
    /\ Len(amulet.replace_ids) = 49
    /\ amulet.info.stage = 1
    /\ get_amulet_replace_text(amulet) = EmptyReplaceText
    /\ get_amulet_replace_text([amulet EXCEPT !.info.stage = 2]) # EmptyReplaceText

-----------------------------------------------------------------------------
(* C7 *)

\* the cursor get_amulet_replace_text() renders in its header; 0 for the empty text
RenderedCursor(a) ==
    LET t == get_amulet_replace_text(a)
    IN  IF t = EmptyReplaceText THEN 0 ELSE t.header[1]

\* C7: the cursor exposed outward, the one get_amulet_replace_text() renders and
\* the one get_amulet_replace_cursor() returns, lies in [0, 49] in every state.
C7_CursorReadClamped ==
    /\ RenderedCursor(amulet) \in 0..49
    /\ get_amulet_replace_cursor(amulet) \in 0..49

-----------------------------------------------------------------------------
(* C8, C9 *)

\* get_amulet_drawable_text() passes its guard: active, pool and draw ids known
DrawableShown(a) == a.active /\ a.pool.some /\ a.pool.val # <<>> /\ a.draw_ids # <<>>

RECURSIVE Flatten(_)
Flatten(rows) == IF rows = <<>> THEN <<>> ELSE Head(rows) \o Flatten(Tail(rows))

RowLens(rows) == [k \in 1..Len(rows) |-> Len(rows[k])]

\* The two formulas read amulet alone. It changes in Process only and every
\* value it takes is held at the next poll, so they are evaluated there.

\* C8: for every N in 1..36 the tile rows of get_amulet_drawable_text() hold N
\* tiles in total, the first row holds N mod 9 tiles (9 when the remainder is 0)
\* and every later row exactly 9; N = 36 gives 4 rows of 9, N = 10 a row of 1
\* and a row of 9.
C8_RowsOfNine ==
    LET N == DrawableRemain(amulet)
        rows == get_amulet_drawable_text(amulet).rows
    IN  (pc = "poll" /\ DrawableShown(amulet) /\ N \in 1..36)
        => /\ Len(Flatten(rows)) = N
           /\ Len(rows[1]) = (IF N % 9 = 0 THEN 9 ELSE N % 9)
           /\ \A k \in 2..Len(rows) : Len(rows[k]) = 9
           /\ (N = 36 => RowLens(rows) = <<9, 9, 9, 9>>)
           /\ (N = 10 => RowLens(rows) = <<1, 9>>)

\* ten tiles remain of a 36-id draw segment: a row of 1 and a row of 9
C8_Witness ==
    /\ DrawableShown(amulet)
    /\ Len(amulet.draw_ids) = 36
    /\ amulet.desktop_remain = 10
    /\ RowLens(get_amulet_drawable_text(amulet).rows) = <<1, 9>>

\* C9: with the subsystem active and pool and DrawSegment known, the drawable
\* text uses N = clamp(DesktopRemain, 0, 36): for N = 0 (a negative DesktopRemain
\* included) it is the header alone; otherwise its tiles are the last N ids of
\* DrawSegment (all of them if it holds fewer), in DrawSegment order, mapped
\* through the pool's id-to-tile table, whatever UsedIdSet holds; the header
\* counts N of 36 when DrawSegment holds its 36 ids.
C9_DrawableIsTail ==
    (pc = "poll" /\ DrawableShown(amulet))
    => LET N == Max(0, Min(amulet.desktop_remain, 36))
           t == get_amulet_drawable_text(amulet)
           ids == amulet.draw_ids
           M == Min(N, Len(ids))
       IN  IF N = 0
           THEN t = [header |-> <<0, 36>>, rows |-> <<>>, stat |-> <<>>]
           ELSE /\ Flatten(t.rows) =
                       [k \in 1..M |->
                           AsEmoji(Id2Tile(amulet.pool.val, ids[Len(ids) - M + k]))]
                /\ (Len(ids) = 36 => t.header = <<N, 36>>)

\* ten tiles are shown and two of them are in UsedIdSet
C9_Witness ==
    /\ DrawableShown(amulet)
    /\ amulet.desktop_remain = 10
    /\ Len(amulet.draw_ids) = 36
    /\ amulet.used_ids = {59, 40}
    /\ 59 \in ToSet(Tail_n(amulet.draw_ids, 10))
    /\ Len(Flatten(get_amulet_drawable_text(amulet).rows)) = 10

-----------------------------------------------------------------------------
(* C10 *)

\* C10: processing a MESSAGE frame whose decoded method is in the ignore-list
\* leaves lobby_flow_id, game_flow_id and every amulet field unchanged.
C10_IgnoredMethodsChangeNothing ==
    [][(pc = "process" /\ IsLiqi /\ msg.content.method \in METHODS_TO_IGNORE)
       => /\ lobby_flow_id' = lobby_flow_id
          /\ game_flow_id' = game_flow_id
          /\ amulet' = amulet]_vars

\* an ignored login response was processed while an amulet game was under way
C10_Witness ==
    /\ Handled
    /\ IsLiqi
    /\ msg.content.method = oauth2Login
    /\ msg.content.type = RES
    /\ amulet.active
    /\ amulet.pool.some
    /\ amulet.used_ids # {}
    /\ amulet = prev

-----------------------------------------------------------------------------
(* C11 *)

\* C11: a RES oauth2Login message processed while lobby_flow_id is None sets
\* lobby_flow_id to the flow id of its frame and fires on_lobby_login exactly
\* once.
C11_LoginSetsLobbyFlow ==
    [][(pc = "process" /\ IsRes(oauth2Login) /\ lobby_flow_id = None)
       => /\ lobby_flow_id' = msg.flow_id
          /\ calls' = <<"on_lobby_login">>]_vars

-----------------------------------------------------------------------------
(* C12 *)

\* no frame ever makes lobby_flow_id non-empty: the login response is consumed
\* by the ignore-list before the login branch
LobbyFlowNeverSet == lobby_flow_id = None /\ game_flow_id = None

\* a login response arrives while a lobby flow is recorded
LoginWhileLobbyActive ==
    pc = "process" /\ IsRes(oauth2Login) /\ lobby_flow_id # None

\* C12: a login response that arrives while lobby_flow_id is non-empty leaves it
\* unchanged and fires no on_lobby_login; lobby_flow_id leaves a non-empty value
\* only by being cleared on the END frame of that flow.
C12_OneLobbyFlow ==
    [][/\ LoginWhileLobbyActive
          => lobby_flow_id' = lobby_flow_id /\ calls' = <<>>
       /\ (lobby_flow_id # None /\ lobby_flow_id' # lobby_flow_id)
          => /\ lobby_flow_id' = None
             /\ msg.type = "END" /\ msg.flow_id = lobby_flow_id]_vars

-----------------------------------------------------------------------------
(* C13 *)

\* C13: in every reachable state the pool is absent or holds exactly 108
\* records.
C13_PoolIs108 == amulet.pool.some => Len(amulet.pool.val) = 108

-----------------------------------------------------------------------------
(* C14 *)

\* C14: in every reachable state in which the pool is absent, DrawSegment,
\* ReplaceQueue and UsedIdSet are empty and DesktopRemain and ReplaceCursor
\* are 0.
C14_AbsentPoolDefaults ==
    ~amulet.pool.some
    => /\ amulet.draw_ids = <<>>
       /\ amulet.replace_ids = <<>>
       /\ amulet.used_ids = {}
       /\ amulet.desktop_remain = 0
       /\ amulet.replace_cursor = 0

-----------------------------------------------------------------------------
(* C15 *)

\* msg is a message that carries no pool array: an operate message, an upgrade
\* message without a dirty pool, a fetch snapshot without a pool
CarriesNoPool ==
    \/ IsRes(amuletActivityOperate)
    \/ /\ IsRes(amuletActivityUpgrade)
       /\ \A i \in 1..Len(EventsOf(msg.content)) :
              ~HasDirtyPool(EventsOf(msg.content)[i])
    \/ /\ IsRes(fetchAmuletActivityData)
       /\ "pool" \notin DOMAIN FetchRound(msg.content.data)

\* C15: in every reachable state DrawSegment is the ids of the current pool's
\* records at indices [23, 59) and ReplaceQueue the ids at [59, 108), both
\* empty when the pool is absent; operate events, non-pool upgrade fields and
\* fetch snapshots without a pool leave both unchanged.
C15_SegmentsFollowPool ==
    /\ amulet.draw_ids =
           IF amulet.pool.some THEN IdsOf(Slice(amulet.pool.val, 23, 59)) ELSE <<>>
    /\ amulet.replace_ids =
           IF amulet.pool.some THEN IdsOf(Slice(amulet.pool.val, 59, 108)) ELSE <<>>
    /\ (Handled /\ CarriesNoPool)
       => /\ amulet.draw_ids = prev.draw_ids
          /\ amulet.replace_ids = prev.replace_ids

\* an operate batch changed the state of a game whose segments are not empty
C15_Witness ==
    /\ Handled
    /\ IsRes(amuletActivityOperate)
    /\ amulet.pool.some
    /\ Len(amulet.draw_ids) = 36
    /\ Len(amulet.replace_ids) = 49
    /\ amulet.used_ids # prev.used_ids

-----------------------------------------------------------------------------
(* C16 *)

\* msg is one of the four reconciler events
IsReconcilerEvent ==
    \E m \in { fetchAmuletActivityData, amuletActivityUpgrade,
               amuletActivityOperate, amuletActivityGiveup } : IsRes(m)

\* C16: replaying a fetch, upgrade, operate or giveup payload right after it
\* was processed changes nothing: pool, DrawSegment, ReplaceQueue, UsedIdSet,
\* DesktopRemain, ReplaceCursor, AmuletMeta and the active flag are as after
\* the first processing.
C16_ReplayIdempotent ==
    (Handled /\ IsReconcilerEvent)
    => AmuletDispatch(amulet, msg.content.method, msg.content.data) = amulet

\* a batch of events that changed the pool, the cursor and the display info of
\* a game under way
C16_Witness ==
    /\ Handled
    /\ IsRes(amuletActivityUpgrade)
    /\ prev.pool.some
    /\ amulet.pool # prev.pool
    /\ amulet.replace_cursor # prev.replace_cursor
    /\ amulet.info # prev.info

-----------------------------------------------------------------------------
(* C17 *)

\* C17: a read query called from another thread while the loop thread handles
\* a pool (re)set or a giveup returns a result and never raises, whatever the
\* interleaving.
C17_QueriesNeverRaise == reader.result # "raised"

-----------------------------------------------------------------------------
(* C18, C19 *)

\* the loop is left: the thread is at the clean-up or has ended
LoopExited == pc \in {"teardown", "exited"}

\* the thread is inside an iteration of the loop
InIteration == pc \in {"pre", "poll", "process", "post"}

\* C18: in every reachable state in which main_thread_exception is set the loop
\* has exited and processes no further frame: the thread is inside no iteration.
C18_FatalStopsLoop == run.main_thread_exception # None => ~InIteration

\* C19: when an exception escapes the loop body it is recorded as the fatal
\* error, the loop exits, and browser, interception server and injection helper
\* are still stopped.
C19_TeardownAfterLoopError ==
    run.main_thread_exception = "LoopBodyError"
    => /\ LoopExited
       /\ pc = "exited" => {"browser", "mitm"} \subseteq run.stopped

-----------------------------------------------------------------------------
(* C20 *)

\* C20: once the stop event is set the loop eventually exits and the thread
\* ends; polling never blocks: with or without a frame the thread goes on to
\* processing or to post-maintenance; after the stop event is set no new
\* iteration is started.
C20_StopExitsLoop ==
    /\ run.stop_event ~> pc = "exited"
    /\ [][pc = "poll" /\ pc' # pc
          => \/ pc' = "process" /\ msg' \in RunFrames
             \/ pc' = "post" /\ msg' = NoMsg]_vars
    /\ [][run.stop_event /\ pc # "pre" => pc' # "pre"]_vars

\* the thread ended through the clean-up after stop() was called
C20_Witness ==
    /\ run.stop_event
    /\ pc = "exited"
    /\ run.main_thread_exception = None
    /\ {"browser", "mitm"} \subseteq run.stopped

-----------------------------------------------------------------------------
(* C21, C22 *)

\* the frame being processed is the END of the recorded game flow
EndOfGameFlow == pc = "process" /\ msg.type = "END" /\ msg.flow_id = game_flow_id

\* the frame being processed is the END of the recorded lobby flow
EndOfLobbyFlow == pc = "process" /\ msg.type = "END" /\ msg.flow_id = lobby_flow_id

\* C21: an END frame whose flow id equals game_flow_id drops the game state,
\* clears the game error, fires on_end_game and leaves game_flow_id empty.
C21_GameEndFinalizes ==
    [][(EndOfGameFlow /\ pc' # pc)
       => /\ game_flow_id' = None
          /\ run'.game_state = None
          /\ run'.game_exception = None
          /\ calls'[1] = "on_end_game"]_vars

-----------------------------------------------------------------------------
(* C23 *)

\* msg is a decoded message of an amulet method that is not a response
IsNonResAmulet ==
    IsLiqi /\ ContainsAmulet(msg.content.method) /\ msg.content.type # RES

\* C23: a MESSAGE whose method contains 'amulet' but whose type is not RES is
\* dropped: no amulet field (the active flag included) and no flow id changes,
\* for fetch, upgrade, operate and giveup alike.
C23_NonResAmuletDropped ==
    [][(pc = "process" /\ IsNonResAmulet)
       => /\ amulet' = amulet
          /\ lobby_flow_id' = lobby_flow_id
          /\ game_flow_id' = game_flow_id]_vars

\* a giveup that is not a response was handled while an amulet game with a
\* pool was under way, and the game is still there
C23_Witness ==
    /\ Handled /\ IsNonResAmulet
    /\ msg.content.method = amuletActivityGiveup
    /\ prev.active /\ prev.pool.some
    /\ amulet.active /\ amulet.pool.some

-----------------------------------------------------------------------------
(* C25 *)

\* msg is a MESSAGE frame the parser failed to decode
IsDecodeFailure == msg.type = "MESSAGE" /\ ~msg.content.ok

\* C25: a decode failure on a MESSAGE frame drops that frame only: the flow
\* ids and the amulet state are unchanged, no callback runs, and the loop goes
\* on to the next frame.
C25_DecodeFailureDropsFrame ==
    [][(pc = "process" /\ IsDecodeFailure)
       => /\ amulet' = amulet
          /\ lobby_flow_id' = lobby_flow_id
          /\ game_flow_id' = game_flow_id
          /\ calls' = <<>>
          /\ pc' = "post"]_vars

\* a frame that failed to decode was handled while an amulet game with a pool
\* and used tiles was under way
C25_Witness ==
    /\ Handled /\ IsDecodeFailure
    /\ amulet.active /\ amulet.pool.some /\ amulet.used_ids # {}

-----------------------------------------------------------------------------
(* C24 *)

\* _process_msg is about to raise while routing msg: the decoded message has
\* no 'data' key
RoutingRaises ==
    pc = "process" /\ IsLiqiFrame(msg) /\ "data" \notin DOMAIN msg.content

\* the parser is about to raise on msg
DecodeRaises == pc = "process" /\ IsDecodeFailure

\* the exceptions that decoding or routing a frame raises
FrameErrors == {"KeyError", "ParseError"}

\* C24 as stated: an exception raised while decoding or routing a frame is
\* recorded as game_exception, the thread goes on to post-maintenance, and the
\* fatal error is left alone.
C24_FrameErrorsRecorded ==
    [][((RoutingRaises \/ DecodeRaises) /\ pc' # pc)
       => /\ run'.game_exception \in FrameErrors
          /\ pc' = "post"
          /\ run'.main_thread_exception = run.main_thread_exception]_vars

\* C24 amended: an exception raised while routing a decoded frame is recorded
\* as game_exception; a decode failure is caught inside _process_msg and leaves
\* game_exception as it was; in both cases the thread goes on to
\* post-maintenance and the fatal error is left alone.
C24_FrameErrorsStayInIteration ==
    [][((RoutingRaises \/ DecodeRaises) /\ pc' # pc)
       => /\ RoutingRaises => run'.game_exception = "KeyError"
          /\ DecodeRaises => run'.game_exception = run.game_exception
          /\ pc' = "post"
          /\ run'.main_thread_exception = run.main_thread_exception]_vars

\* routing a frame has raised: the error is the game error, no fatal error is
\* set and the thread is at post-maintenance
C24_Witness ==
    /\ pc = "post"
    /\ IsLiqiFrame(msg) /\ "data" \notin DOMAIN msg.content
    /\ run.game_exception = "KeyError"
    /\ run.main_thread_exception = None

-----------------------------------------------------------------------------
(* C26 *)

\* C26: at the end of every post-maintenance step the game error is the
\* interception-down error if the interception server reported not-running,
\* and is not an interception-down error if it reported running.
C26_MitmErrorFollowsHealth ==
    [][(pc = "post" /\ pc' # pc)
       => /\ ~run'.mitm_running => run'.game_exception = "MITMException"
          /\ run'.mitm_running => run'.game_exception # "MITMException"]_vars

\* post-maintenance has found the interception server stopped and the
\* iteration is over
C26_Witness ==
    /\ pc = "head"
    /\ ~run.mitm_running
    /\ run.game_exception = "MITMException"

-----------------------------------------------------------------------------
(* C27 *)

\* pre-maintenance is about to construct the bot
BotDue(r) == r.bot_need_update /\ r.game_state = None

\* _loop_pre_msg applied to r leaves the bot, the flag and the game error alone
PreKeepsBot(r) ==
    \A created, browser_running, cert_installed \in BOOLEAN :
        LET r2 == loop_pre_msg(r, created, browser_running, cert_installed)
        IN  /\ r2.bot = r.bot
            /\ r2.bot_need_update = r.bot_need_update
            /\ r2.game_exception = r.game_exception

\* C27: pre-maintenance constructs the bot only when the flag is set and no
\* game is active; during a game flag and bot are left alone; a failed
\* construction leaves the bot absent and the failure as game error, and does
\* not leave pre-maintenance; the flag is cleared after the attempt either way.
C27_BotUpdate ==
    [][(pc = "pre" /\ pc' = "poll")
       => /\ ~BotDue(run) => /\ run'.bot = run.bot
                             /\ run'.bot_need_update = run.bot_need_update
                             /\ run'.game_exception = run.game_exception
          /\ BotDue(run) => /\ ~run'.bot_need_update
                            /\ \/ run'.bot = "bot" /\ run'.game_exception = None
                               \/ run'.bot = None /\ run'.game_exception = "BotError"
                            /\ run'.main_thread_exception = run.main_thread_exception
          /\ PreKeepsBot([run EXCEPT !.game_state = "game"])]_vars

\* a construction failed after an earlier request: the bot is absent, the
\* failure is the game error, the flag is cleared and the thread goes on to poll
C27_Witness ==
    /\ pc = "poll"
    /\ run.bot = None
    /\ run.game_exception = "BotError"
    /\ ~run.bot_need_update
    /\ run.main_thread_exception = None

-----------------------------------------------------------------------------
(* C28 *)

\* the subsystems in the order the clean-up stops them
TeardownPrefixes ==
    {{}, {"browser"}, {"browser", "mitm"}, {"browser", "mitm", "proxinject"}}

\* C28: on loop exit browser, interception server and injection helper are
\* stopped in this order, and a failing step neither skips the later steps nor
\* is recorded as the fatal error.
C28_TeardownBestEffort ==
    [][(pc = "teardown" /\ pc' = "exited")
       => /\ run'.stopped \in TeardownPrefixes
          /\ {"browser", "mitm"} \subseteq run'.stopped
          /\ run'.main_thread_exception = run.main_thread_exception]_vars

-----------------------------------------------------------------------------
(* C29 *)

\* one of the three field statements of the loop body of
\* _amulet_on_upgrade_events, applied to the round dict rd of an event
ApplyUpgradeField(a, rd, field) ==
    IF field = "pool"
    THEN IF IsDirty(rd, "pool") /\ "value" \in DOMAIN rd.pool
         THEN amulet_set_pool_from_array(a, rd.pool.value) ELSE a
    ELSE IF field = "desktopRemain"
    THEN IF IsDirty(rd, "desktopRemain")
         THEN [a EXCEPT !.desktop_remain = GetOr(rd.desktopRemain, "value", 0)]
         ELSE a
    ELSE IF IsDirty(rd, "used")
         THEN [a EXCEPT !.replace_cursor = Len(GetOr(rd.used, "value", <<>>))]
         ELSE a

\* the field statements applied in the given order
RECURSIVE ApplyUpgradeFields(_, _, _)
ApplyUpgradeFields(a, rd, order) ==
    IF order = <<>> THEN a
    ELSE ApplyUpgradeFields(ApplyUpgradeField(a, rd, Head(order)), rd, Tail(order))

\* the order of the statements in the source
UpgradeFieldOrder == <<"pool", "desktopRemain", "used">>

\* every order of the three fields
FieldOrders ==
    { o \in [1..3 -> ToSet(UpgradeFieldOrder)] : ToSet(o) = ToSet(UpgradeFieldOrder) }

\* the pool bookkeeping of the amulet state
Bookkeeping(a) == <<a.pool, a.used_ids, a.desktop_remain, a.replace_cursor>>

\* the amulet state in which the loop of _amulet_on_upgrade_events reaches the
\* i-th event of msg
BeforeEvent(i) ==
    [amulet_on_upgrade_events([prev EXCEPT !.active = TRUE],
                              SubSeq(EventsOf(msg.content), 1, i - 1))
        EXCEPT !.info = prev.info]

\* the statements in source order are the loop body
UpgradeFieldsAreLoopBody ==
    (Handled /\ IsRes(amuletActivityUpgrade))
    => \A i \in 1..Len(EventsOf(msg.content)) :
           LET ev == EventsOf(msg.content)[i]
           IN  ApplyUpgradeFields(BeforeEvent(i), RoundOf(ev), UpgradeFieldOrder)
               = UpgradeEvent(BeforeEvent(i), ev)

\* C29: the dirty fields of one upgrade event are applied independently: the
\* pool, UsedIdSet, DesktopRemain and ReplaceCursor the code ends with are the
\* ones every order of applying the fields gives.
C29_FieldOrderIrrelevant ==
    (Handled /\ IsRes(amuletActivityUpgrade))
    => \A i \in 1..Len(EventsOf(msg.content)) :
           LET ev == EventsOf(msg.content)[i]
           IN  \A o \in FieldOrders :
                   Bookkeeping(ApplyUpgradeFields(BeforeEvent(i), RoundOf(ev), o))
                   = Bookkeeping(UpgradeEvent(BeforeEvent(i), ev))

-----------------------------------------------------------------------------
(* C30 *)

\* msg is a fetch response whose round carries neither a pool array nor a
\* resume field
IsBareFetch ==
    /\ IsRes(fetchAmuletActivityData)
    /\ LET round_obj == FetchRound(msg.content.data)
       IN  {"pool", "usedDesktop", "used", "desktopRemain"} \cap DOMAIN round_obj = {}

\* C30: a fetch whose round carries neither a pool array nor usedDesktop, used
\* or desktopRemain leaves TilePool, DrawSegment, ReplaceQueue, UsedIdSet,
\* DesktopRemain and ReplaceCursor unchanged.
C30_BareFetchKeepsBookkeeping ==
    (Handled /\ IsBareFetch)
    => /\ amulet.pool = prev.pool
       /\ amulet.draw_ids = prev.draw_ids
       /\ amulet.replace_ids = prev.replace_ids
       /\ amulet.used_ids = prev.used_ids
       /\ amulet.desktop_remain = prev.desktop_remain
       /\ amulet.replace_cursor = prev.replace_cursor

-----------------------------------------------------------------------------
(* SpecBot: the loop of _run with _loop_pre_msg taken statement by statement,
   so that set_bot_update() of another thread can land between the call of
   _create_bot and the clearing of the flag *)

\* self.fps_counter.frame() and the test of line 309: _create_bot is called, or
\* the rest of _loop_pre_msg runs
BotPreCheck ==
    /\ pc = "pre"
    /\ \/ /\ BotDue(run)
          /\ run' = bot_construction_starts(run)
          /\ pc' = "creating"
       \/ /\ ~BotDue(run)
          /\ \E browser_running, cert_installed \in BOOLEAN :
                 run' = loop_pre_msg(run, FALSE, browser_running, cert_installed)
          /\ pc' = "poll"
       \/ /\ run' = run_except(run, "LoopBodyError")
          /\ pc' = "exited"
    /\ UNCHANGED <<lobby_flow_id, game_flow_id, amulet, msg, prev, calls, reader>>

\* the body of _create_bot: get_bot returns or raises
BotCreate ==
    /\ pc = "creating"
    /\ \E created \in BOOLEAN : run' = create_bot(run, created)
    /\ pc' = "clear"
    /\ UNCHANGED <<lobby_flow_id, game_flow_id, amulet, msg, prev, calls, reader>>

\* self.bot_need_update = False, and the rest of _loop_pre_msg
BotClear ==
    /\ pc = "clear"
    /\ \E browser_running, cert_installed \in BOOLEAN :
           run' = loop_pre_msg([run EXCEPT !.bot_need_update = FALSE],
                               FALSE, browser_running, cert_installed)
    /\ pc' = "poll"
    /\ UNCHANGED <<lobby_flow_id, game_flow_id, amulet, msg, prev, calls, reader>>

NextBot ==
    \/ RunStart \/ LoopHead \/ BotPreCheck \/ BotCreate \/ BotClear
    \/ RunPoll \/ RunProcess \/ RunPost \/ Teardown \/ Stop \/ SetBotUpdate

SpecBot == InitRun /\ [][NextBot]_vars

-----------------------------------------------------------------------------
(* C31 *)

\* C31: a bot-update request is never lost: as long as no construction has
\* started after a set_bot_update() call, the bot-needs-update flag is still
\* set, so that the next pre-maintenance constructs the bot.
C31_UpdateNeverLost == run.update_requested => run.bot_need_update

-----------------------------------------------------------------------------
(* C32 *)

\* the game errors that are not the interception-down error
NonMitmErrors == {"BotError", "KeyError"}

\* C32: post-maintenance that finds the interception server not running
\* replaces an outstanding construction or frame error by the
\* interception-down error, and once the server runs again the game error is
\* none: the earlier error does not come back.
C32_MitmErrorReplaces ==
    [][(pc = "post" /\ pc' # pc)
       => /\ (run.game_exception \in NonMitmErrors /\ ~run'.mitm_running)
             => run'.game_exception = "MITMException"
          /\ (run.game_exception = "MITMException" /\ run'.mitm_running)
             => run'.game_exception = None]_vars

\* post-maintenance found a construction or frame error outstanding and the
\* server down: the game error is now the interception-down error
C32_Witness ==
    /\ pc = "head"
    /\ run.found_exception \in NonMitmErrors
    /\ ~run.mitm_running
    /\ run.game_exception = "MITMException"

-----------------------------------------------------------------------------
(* C33 *)

\* C33: a game error recorded from a frame-processing exception is sticky: a
\* frame processed without error leaves it in place, post-maintenance does
\* not call decide_lobby_action while a game error is outstanding, and the
\* game error becomes none only by a successful construction of the bot, by
\* the end-game finalize, or by the recovery of the interception server after
\* its error replaced it.
C33_FrameErrorSticky ==
    [][/\ (pc = "process" /\ pc' # pc /\ run.game_exception = "KeyError"
           /\ ~EndOfGameFlow)
          => run'.game_exception = "KeyError"
       /\ (pc = "post" /\ pc' # pc /\ run'.game_exception # None)
          => ~run'.lobby_decided
       /\ (run.game_exception = "KeyError" /\ run'.game_exception # "KeyError")
          => \/ pc = "pre" /\ BotDue(run)
             \/ pc = "post" /\ ~run'.mitm_running
                /\ run'.game_exception = "MITMException"
             \/ EndOfGameFlow
       /\ (run.game_exception # None /\ run'.game_exception = None)
          => \/ pc = "pre" /\ BotDue(run) /\ run'.bot = "bot"
             \/ pc = "post" /\ run.game_exception = "MITMException"
                /\ run'.mitm_running
             \/ EndOfGameFlow]_vars

\* a frame error of an earlier iteration is still the game error after a frame
\* was processed without error, and the last post-maintenance skipped the lobby
\* decision
C33_Witness ==
    /\ pc = "post"
    /\ msg.type = "START"
    /\ run.game_exception = "KeyError"
    /\ run.found_exception = "KeyError"
    /\ ~run.lobby_decided

====
